---------------------------- MODULE Spec2Model ----------------------------
(***************************************************************************)
(* FRANZ agent loop (main.py, drawing.py): the action parser, the literal  *)
(* formatter, the coordinate mapper, the annotation composer and the main  *)
(* perceive / think / understand / act / remember cycle.                   *)
(*                                                                         *)
(* Text is a sequence of one-character strings, so that the regular        *)
(* expression _FUNC_RE, str.strip, str.splitlines, re.findall, int and str *)
(* are modelled by what they do to characters.                             *)
(***************************************************************************)
EXTENDS Integers, Sequences, FiniteSets, TLC

VARIABLES
    pc,            \* position of main(): which block of the loop runs next
    iteration,     \* main.py:511  the cycle counter
    story,         \* main.py:508  the narrative
    last_actions,  \* main.py:509  the literals of the previous cycle
    transport,     \* main.py:546  how the last call of infer ended
    resp,          \* the fragments the model response is made of (input)
    content,       \* main.py:546  the response text
    commands,      \* main.py:550  parsed (func_name, params) list
    new_story,     \* main.py:550  parsed narrative
    executed,      \* main.py:553  the literals executed in this cycle
    idx,           \* main.py:558  position of the loop over commands
    annotated,     \* main.py:232  the entries draw_annotations iterated over
    overlay,       \* main.py:227  the drawing calls draw_annotations made
    dispatched,    \* main.py:561  the calls of execute_action in this cycle
    events,        \* main.py:362-487  the calls of user32 of the last action
    printed,       \* main.py:557-566  the lines printed while acting
    failed,        \* the actions of this cycle in which an OS call failed
    coord,         \* drawing.py:218  normalize_coord's coord
    max_val,       \* drawing.py:218  normalize_coord's max_val
    pixel,         \* drawing.py:228  normalize_coord's result
    rgba,          \* drawing.py:31   the pixel buffer, as bytes
    shape,         \* the primitive called and its arguments (input)
    pen,           \* drawing.py:129-131  x, y and err of draw_line
    writes         \* the pixels written by the last call or turn

parseVars == <<resp, content, commands, new_story>>
coordVars == <<coord, max_val, pixel>>
memoryVars == <<iteration, story, last_actions>>
perceiveVars == <<annotated, overlay>>
actVars == <<executed, idx, dispatched, events, printed, failed>>
loopVars == <<memoryVars, transport, perceiveVars, actVars>>
rasterVars == <<rgba, shape, pen, writes>>
vars == <<pc, parseVars, coordVars, loopVars, rasterVars>>

---------------------------------------------------------------------------
(* Characters *)

Digits == <<"0", "1", "2", "3", "4", "5", "6", "7", "8", "9">>

Letters == {"a", "b", "c", "d", "e", "f", "g", "h", "i", "j", "k", "l", "m",
            "n", "o", "p", "q", "r", "s", "t", "u", "v", "w", "x", "y", "z"}

IsDigit(c) == \E d \in 1..10 : Digits[d] = c

DigitVal(c) == (CHOOSE d \in 1..10 : Digits[d] = c) - 1

\* white space of the regular expression and the characters str.strip removes
IsSpace(c) == c \in {" ", "\n", "\t", "\r"}

\* word characters of the regular expression: what the word boundary tests
IsWordChar(c) == c \in Letters \/ IsDigit(c) \/ c = "_"

Min(S) == CHOOSE x \in S : \A y \in S : x <= y
Max(S) == CHOOSE x \in S : \A y \in S : x >= y

\* str.strip()
Strip(s) ==
    IF \A i \in 1..Len(s) : IsSpace(s[i]) THEN <<>>
    ELSE LET first == CHOOSE i \in 1..Len(s) :
                          ~IsSpace(s[i]) /\ \A j \in 1..(i - 1) : IsSpace(s[j])
             last  == CHOOSE i \in 1..Len(s) :
                          ~IsSpace(s[i]) /\ \A j \in (i + 1)..Len(s) : IsSpace(s[j])
         IN  SubSeq(s, first, last)

\* s[i:].startswith(w)
StartsWithAt(s, i, w) ==
    /\ i + Len(w) - 1 <= Len(s)
    /\ \A k \in 1..Len(w) : s[i + k - 1] = w[k]

---------------------------------------------------------------------------
\* _FUNC_RE: a word boundary, one of the five keywords (group 1), optional
\* white space, "(", the characters up to the first ")" (group 2), ")"

FuncNames == <<"left_click", "right_click", "double_left_click", "drag", "type">>

Keywords == <<
    <<"l", "e", "f", "t", "_", "c", "l", "i", "c", "k">>,
    <<"r", "i", "g", "h", "t", "_", "c", "l", "i", "c", "k">>,
    <<"d", "o", "u", "b", "l", "e", "_", "l", "e", "f", "t", "_", "c", "l", "i", "c", "k">>,
    <<"d", "r", "a", "g">>,
    <<"t", "y", "p", "e">> >>

KeywordOf(func_name) == Keywords[CHOOSE k \in 1..5 : FuncNames[k] = func_name]

NoMatch == [found |-> FALSE, func |-> "", args |-> <<>>, end |-> 0]

\* the alternative of group 1 that matches at position i (0: none); the
\* alternatives are tried in order
KeywordAt(s, i) ==
    LET hits == {k \in 1..5 : StartsWithAt(s, i, Keywords[k])}
    IN  IF hits = {} THEN 0 ELSE Min(hits)

\* the optional white space: greedy, and what must follow it is no space
RECURSIVE SkipSpaces(_, _)
SkipSpaces(s, i) ==
    IF i <= Len(s) /\ IsSpace(s[i]) THEN SkipSpaces(s, i + 1) ELSE i

\* group 2 and the closing parenthesis: the first ")" at or after i (0: none)
RECURSIVE FindClose(_, _)
FindClose(s, i) ==
    IF i > Len(s) THEN 0
    ELSE IF s[i] = ")" THEN i
    ELSE FindClose(s, i + 1)

\* the word boundary before the keyword: the keyword starts with a word character, so the
\* boundary holds at the start of the text or after a non-word character
WordBoundary(s, i) == i = 1 \/ ~IsWordChar(s[i - 1])

\* one attempt of the pattern at position i
MatchAt(s, i) ==
    LET k     == KeywordAt(s, i)
        open  == SkipSpaces(s, i + Len(Keywords[k]))
        close == FindClose(s, open + 1)
    IN  IF k = 0 \/ ~WordBoundary(s, i) THEN NoMatch
        ELSE IF open > Len(s) \/ s[open] # "(" THEN NoMatch
        ELSE IF close = 0 THEN NoMatch
        ELSE [found |-> TRUE, func |-> FuncNames[k],
              args |-> SubSeq(s, open + 1, close - 1), end |-> close]

\* _FUNC_RE.search from position i: the leftmost match
RECURSIVE Search(_, _)
Search(s, i) ==
    IF i > Len(s) THEN NoMatch
    ELSE LET m == MatchAt(s, i)
         IN  IF m.found THEN m ELSE Search(s, i + 1)

\* _FUNC_RE.finditer: the successive non-overlapping leftmost matches
RECURSIVE FindIter(_, _)
FindIter(s, i) ==
    LET m == Search(s, i)
    IN  IF m.found THEN <<m>> \o FindIter(s, m.end + 1) ELSE <<>>

---------------------------------------------------------------------------
(* _parse_args *)

None == [some |-> FALSE, params |-> <<>>]
Some(p) == [some |-> TRUE, params |-> p]

\* end of the run of digits that starts at i
RECURSIVE DigitRunEnd(_, _)
DigitRunEnd(s, i) ==
    IF i + 1 <= Len(s) /\ IsDigit(s[i + 1]) THEN DigitRunEnd(s, i + 1) ELSE i

\* re.findall of an optional "-" and a run of digits: the successive tokens
RECURSIVE FindAllInts(_, _)
FindAllInts(s, i) ==
    IF i > Len(s) THEN <<>>
    ELSE IF s[i] = "-" /\ i + 1 <= Len(s) /\ IsDigit(s[i + 1])
        THEN LET e == DigitRunEnd(s, i + 1)
             IN  <<SubSeq(s, i, e)>> \o FindAllInts(s, e + 1)
    ELSE IF IsDigit(s[i])
        THEN LET e == DigitRunEnd(s, i)
             IN  <<SubSeq(s, i, e)>> \o FindAllInts(s, e + 1)
    ELSE FindAllInts(s, i + 1)

\* int() of a token of digits
RECURSIVE NatOfDigits(_, _)
NatOfDigits(tok, n) ==
    IF n = 0 THEN 0 ELSE 10 * NatOfDigits(tok, n - 1) + DigitVal(tok[n])

\* int() of a token with an optional "-"
ParseInt(tok) ==
    IF tok[1] = "-" THEN 0 - NatOfDigits(Tail(tok), Len(tok) - 1)
    ELSE NatOfDigits(tok, Len(tok))

Quoted(text, q) == Len(text) >= 1 /\ text[1] = q /\ text[Len(text)] = q

_parse_args(func_name, raw_args) ==
    IF func_name = "type"
    THEN LET text  == Strip(raw_args)
             inner == IF Quoted(text, "\"") \/ Quoted(text, "'")
                      THEN SubSeq(text, 2, Len(text) - 1)
                      ELSE text
         IN  IF inner # <<>> THEN Some(<<inner>>) ELSE None
    ELSE LET nums == FindAllInts(raw_args, 1)
         IN  IF func_name \in {"left_click", "right_click", "double_left_click"}
                /\ Len(nums) >= 2
             THEN Some(<<ParseInt(nums[1]), ParseInt(nums[2])>>)
             ELSE IF func_name = "drag" /\ Len(nums) >= 4
             THEN Some(<<ParseInt(nums[1]), ParseInt(nums[2]),
                         ParseInt(nums[3]), ParseInt(nums[4])>>)
             ELSE None

---------------------------------------------------------------------------
(* parse_response *)

\* mutant of CollectCommands: the first parse miss ends the batch
RECURSIVE CollectUntilMiss(_, _)
CollectUntilMiss(matches, n) ==
    IF n = 0 THEN <<>>
    ELSE LET rest == CollectUntilMiss(matches, n - 1)
             ok(j) == _parse_args(matches[j].func, Strip(matches[j].args)).some
         IN  IF \A j \in 1..n : ok(j)
             THEN Append(rest, [func |-> matches[n].func,
                                params |-> _parse_args(matches[n].func,
                                                       Strip(matches[n].args)).params])
             ELSE rest

\* the loop of lines 180-185 over the matches
RECURSIVE CollectCommands(_, _)
CollectCommands(matches, n) ==
    IF n = 0 THEN <<>>
    ELSE LET m      == matches[n]
             params == _parse_args(m.func, Strip(m.args))
             rest   == CollectCommands(matches, n - 1)
         IN  IF params.some
             THEN Append(rest, [func |-> m.func, params |-> params.params])
             ELSE rest

\* str.splitlines() on the line break of the model's alphabet
RECURSIVE SplitLines(_, _)
SplitLines(s, i) ==
    IF i > Len(s) THEN <<>>
    ELSE LET brk == {j \in i..Len(s) : s[j] = "\n"}
         IN  IF brk = {} THEN <<SubSeq(s, i, Len(s))>>
             ELSE <<SubSeq(s, i, Min(brk) - 1)>> \o SplitLines(s, Min(brk) + 1)

\* the backtick character (a string literal of the module cannot hold it)
BackTick == "BACKTICK"

Fence == <<BackTick, BackTick, BackTick>>

\* mutant of KeepLine: a line is left out only when its call parses
KeepLineUnlessParsed(line) ==
    LET stripped == Strip(line)
        m        == Search(stripped, 1)
    IN  /\ stripped # <<>>
        /\ ~(m.found /\ _parse_args(m.func, Strip(m.args)).some)
        /\ ~StartsWithAt(stripped, 1, Fence)

\* the loop of lines 189-197: the lines kept for the story
KeepLine(line) ==
    LET stripped == Strip(line)
    IN  /\ stripped # <<>>
        /\ ~Search(stripped, 1).found
        /\ ~StartsWithAt(stripped, 1, Fence)

RECURSIVE StoryLines(_, _)
StoryLines(lines, n) ==
    IF n = 0 THEN <<>>
    ELSE IF KeepLine(lines[n])
         THEN Append(StoryLines(lines, n - 1), Strip(lines[n]))
         ELSE StoryLines(lines, n - 1)

\* mutant of JoinSpace: the lines are joined by line breaks
RECURSIVE JoinNewline(_, _)
JoinNewline(lines, n) ==
    IF n = 0 THEN <<>>
    ELSE IF n = 1 THEN lines[1]
    ELSE JoinNewline(lines, n - 1) \o <<"\n">> \o lines[n]

\* " ".join(lines)
RECURSIVE JoinSpace(_, _)
JoinSpace(lines, n) ==
    IF n = 0 THEN <<>>
    ELSE IF n = 1 THEN lines[1]
    ELSE JoinSpace(lines, n - 1) \o <<" ">> \o lines[n]

parse_response(text) ==
    LET matches     == FindIter(text, 1)
        lines       == SplitLines(text, 1)
        story_lines == StoryLines(lines, Len(lines))
    IN  [commands |-> CollectCommands(matches, Len(matches)),
         story    |-> Strip(JoinSpace(story_lines, Len(story_lines)))]

---------------------------------------------------------------------------
(* format_command *)

\* str() of a natural number
RECURSIVE NatToStr(_)
NatToStr(n) ==
    IF n < 10 THEN <<Digits[n + 1]>>
    ELSE Append(NatToStr(n \div 10), Digits[(n % 10) + 1])

\* str() of an integer
IntToStr(n) == IF n < 0 THEN <<"-">> \o NatToStr(0 - n) ELSE NatToStr(n)

\* ",".join(str(p) for p in params)
RECURSIVE JoinComma(_, _)
JoinComma(params, n) ==
    IF n = 0 THEN <<>>
    ELSE IF n = 1 THEN IntToStr(params[1])
    ELSE JoinComma(params, n - 1) \o <<",">> \o IntToStr(params[n])

\* mutant of format_command: the payload of type is written without quotes
format_command_unquoted(func_name, params) ==
    IF func_name = "type"
    THEN <<"t", "y", "p", "e", "(">> \o params[1] \o <<")">>
    ELSE KeywordOf(func_name) \o <<"(">> \o JoinComma(params, Len(params)) \o <<")">>

format_command(func_name, params) ==
    IF func_name = "type"
    THEN <<"t", "y", "p", "e", "(", "\"">> \o params[1] \o <<"\"", ")">>
    ELSE KeywordOf(func_name) \o <<"(">> \o JoinComma(params, Len(params)) \o <<")">>

---------------------------------------------------------------------------
(* Binary floating point (IEEE 754 double, round to nearest even), as far as *)
(* normalize_coord, execute_action and smooth_move_to use it: int / float,   *)
(* float * int, float * float, int + float, int - float, int()             *)
(*                                                                         *)
(* A positive double is [limbs, e]: its 53 significand bits are a leading   *)
(* 1 and four limbs of 13 bits, the most significant first, and e is the    *)
(* exponent of the leading 1; zero has no limbs. The integers of the        *)
(* checker have 32 bits, which is why the significand is kept in limbs.     *)

\* the bits of a limb
LimbWidth == 13

Radix == 2^LimbWidth

\* 1 + 4 * 13 = 53 significand bits
Precision == 1 + 4 * LimbWidth

FZero == [limbs |-> <<>>, e |-> 0]

\* the number of bits of a natural number below 2^31
BitLen(n) == IF n = 0 THEN 0 ELSE 1 + (CHOOSE k \in 0..30 : 2^k <= n /\ n \div 2 < 2^k)

\* the significand plus one unit in the last place; a carry out of the
\* first limb makes the significand 2^53, which is 2^52 one exponent up
NextUp(limbs, e) ==
    IF limbs[4] < Radix - 1
    THEN [limbs |-> <<limbs[1], limbs[2], limbs[3], limbs[4] + 1>>, e |-> e]
    ELSE IF limbs[3] < Radix - 1
    THEN [limbs |-> <<limbs[1], limbs[2], limbs[3] + 1, 0>>, e |-> e]
    ELSE IF limbs[2] < Radix - 1
    THEN [limbs |-> <<limbs[1], limbs[2] + 1, 0, 0>>, e |-> e]
    ELSE IF limbs[1] < Radix - 1
    THEN [limbs |-> <<limbs[1] + 1, 0, 0, 0>>, e |-> e]
    ELSE [limbs |-> <<0, 0, 0, 0>>, e |-> e + 1]

\* round to nearest, ties to even: limbs are the first 53 bits of the exact
\* value, guard is its next bit, sticky says that non-zero bits follow
RoundNearestEven(limbs, guard, sticky, e) ==
    IF guard = 1 /\ (sticky \/ limbs[4] % 2 = 1)
    THEN NextUp(limbs, e)
    ELSE [limbs |-> limbs, e |-> e]

\* n / d for naturals n and d > 0 below 2^18, both exactly representable:
\* the correctly rounded quotient, by long division of num / den in [1, 2)
FDivNat(n, d) ==
    IF n = 0 THEN FZero
    ELSE LET k   == BitLen(n) - BitLen(d)
             e   == IF k >= 0 THEN (IF d * 2^k <= n THEN k ELSE k - 1)
                    ELSE (IF d <= n * 2^(0 - k) THEN k ELSE k - 1)
             num == IF e >= 0 THEN n ELSE n * 2^(0 - e)
             den == IF e >= 0 THEN d * 2^e ELSE d
             r0  == num - den
             r1  == (r0 * Radix) % den
             r2  == (r1 * Radix) % den
             r3  == (r2 * Radix) % den
             r4  == (r3 * Radix) % den
         IN  RoundNearestEven(<<(r0 * Radix) \div den, (r1 * Radix) \div den,
                                (r2 * Radix) \div den, (r3 * Radix) \div den>>,
                              (2 * r4) \div den, (2 * r4) % den # 0, e)

\* f * w for a natural w below 2^12, exactly representable: the correctly
\* rounded product; the exact product is top, p1, p2, p3, p4 in limbs
FMulNat(f, w) ==
    IF f.limbs = <<>> \/ w = 0 THEN FZero
    ELSE LET t4   == f.limbs[4] * w
             t3   == f.limbs[3] * w + t4 \div Radix
             t2   == f.limbs[2] * w + t3 \div Radix
             t1   == f.limbs[1] * w + t2 \div Radix
             top  == w + t1 \div Radix
             p1   == t1 % Radix
             p2   == t2 % Radix
             p3   == t3 % Radix
             p4   == t4 % Radix
             \* the bits of the product beyond 53
             sh   == BitLen(top) - 1
             low  == 2^sh
             up   == 2^(LimbWidth - sh)
             half == IF sh = 0 THEN 1 ELSE 2^(sh - 1)
         IN  RoundNearestEven(<<(top % low) * up + p1 \div low,
                                (p1 % low) * up + p2 \div low,
                                (p2 % low) * up + p3 \div low,
                                (p3 % low) * up + p4 \div low>>,
                              IF sh = 0 THEN 0 ELSE (p4 % low) \div half,
                              sh > 0 /\ (p4 % low) % half # 0,
                              f.e + sh)

\* int(f) for 0 <= f < 2^31: the integer part
FTrunc(f) ==
    IF f.limbs = <<>> \/ f.e < 0 THEN 0
    ELSE IF f.e <= LimbWidth
    THEN 2^f.e + f.limbs[1] \div 2^(LimbWidth - f.e)
    ELSE IF f.e <= 2 * LimbWidth
    THEN 2^f.e + f.limbs[1] * 2^(f.e - LimbWidth) + f.limbs[2] \div 2^(2 * LimbWidth - f.e)
    ELSE 2^f.e + f.limbs[1] * 2^(f.e - LimbWidth) + f.limbs[2] * 2^(f.e - 2 * LimbWidth)
         + f.limbs[3] \div 2^(3 * LimbWidth - f.e)

Abs(n) == IF n < 0 THEN 0 - n ELSE n

\* the digits in base Radix, the most significant first, of a natural number
\* below 2^31
NatDigits(n) ==
    IF n = 0 THEN <<>>
    ELSE IF n < Radix THEN <<n>>
    ELSE IF n < Radix * Radix THEN <<n \div Radix, n % Radix>>
    ELSE <<n \div (Radix * Radix), (n \div Radix) % Radix, n % Radix>>

\* the 53 significand bits of a positive double as digits: 2^52 + the limbs
Significand(f) == <<1>> \o f.limbs

\* column sums (each below 2^31 in size, negative ones are borrows) made
\* digits of 0..Radix-1, from the last column to the first
RECURSIVE Carried(_, _, _)
Carried(cols, k, carry) ==
    IF k = 0 THEN NatDigits(carry)
    ELSE Append(Carried(cols, k - 1, (cols[k] + carry) \div Radix), (cols[k] + carry) % Radix)

\* digits with zeros put in front, up to n digits
Padded(digits, n) ==
    [k \in 1..n |-> IF k <= n - Len(digits) THEN 0 ELSE digits[k - (n - Len(digits))]]

Longer(a, b) == IF Len(a) > Len(b) THEN Len(a) ELSE Len(b)

BigAdd(a, b) ==
    Carried([k \in 1..Longer(a, b) |-> Padded(a, Longer(a, b))[k] + Padded(b, Longer(a, b))[k]],
            Longer(a, b), 0)

\* a - b for a >= b
BigSub(a, b) ==
    Carried([k \in 1..Longer(a, b) |-> Padded(a, Longer(a, b))[k] - Padded(b, Longer(a, b))[k]],
            Longer(a, b), 0)

BigLess(a, b) ==
    \E k \in 1..Longer(a, b) :
        /\ Padded(a, Longer(a, b))[k] < Padded(b, Longer(a, b))[k]
        /\ \A j \in 1..(k - 1) : Padded(a, Longer(a, b))[j] = Padded(b, Longer(a, b))[j]

\* the sum of the products a[i] * b[j] of column k, for i up to n
RECURSIVE Column(_, _, _, _)
Column(a, b, k, n) ==
    IF n = 0 THEN 0
    ELSE Column(a, b, k, n - 1)
         + (IF k + 1 - n \in 1..Len(b) THEN a[n] * b[k + 1 - n] ELSE 0)

\* a * b, for at most five digits each
BigMul(a, b) ==
    IF a = <<>> \/ b = <<>> THEN <<>>
    ELSE Carried([k \in 1..(Len(a) + Len(b) - 1) |-> Column(a, b, k, Len(a))],
                 Len(a) + Len(b) - 1, 0)

\* digits * 2^bits
ShiftLeft(digits, bits) ==
    BigMul(digits, <<2^(bits % LimbWidth)>>) \o [k \in 1..(bits \div LimbWidth) |-> 0]

\* digits without the zeros in front
RECURSIVE Significant(_)
Significant(digits) ==
    IF digits = <<>> \/ digits[1] # 0 THEN digits ELSE Significant(Tail(digits))

\* the double nearest to digits * 2^(-scale), for digits that start with a
\* non-zero one: sh bits of the first digit follow its leading 1, the limbs
\* are the next 52 bits, rest holds the sh + 13 bits after them
RoundDigits(d, n, sh, scale) ==
    RoundNearestEven(
        [k \in 1..4 |-> (d[k] % 2^sh) * 2^(LimbWidth - sh) + d[k + 1] \div 2^sh],
        ((d[5] % 2^sh) * Radix + d[6]) \div 2^(sh + LimbWidth - 1),
        \/ ((d[5] % 2^sh) * Radix + d[6]) % 2^(sh + LimbWidth - 1) # 0
        \/ \E k \in 7..Len(d) : d[k] # 0,
        LimbWidth * (n - 1) + sh - scale)

FRound(digits, scale) ==
    IF Significant(digits) = <<>> THEN FZero
    ELSE RoundDigits(Significant(digits) \o <<0, 0, 0, 0, 0>>, Len(Significant(digits)),
                     BitLen(Significant(digits)[1]) - 1, scale)

\* f * g for doubles f, g >= 0
FMul(f, g) ==
    IF f.limbs = <<>> \/ g.limbs = <<>> THEN FZero
    ELSE FRound(BigMul(Significand(f), Significand(g)), 2 * (Precision - 1) - f.e - g.e)

\* n + f and |n - f| for a natural n and a double 0 <= f < 2^31: both in
\* units of the last place of f, added exactly, rounded once
NatPlus(n, f) ==
    IF f.limbs = <<>> THEN FRound(NatDigits(n), 0)
    ELSE FRound(BigAdd(ShiftLeft(NatDigits(n), Precision - 1 - f.e), Significand(f)),
                Precision - 1 - f.e)

NatBelow(n, f) ==
    f.limbs # <<>> /\ BigLess(ShiftLeft(NatDigits(n), Precision - 1 - f.e), Significand(f))

NatMinus(n, f) ==
    IF f.limbs = <<>> THEN FRound(NatDigits(n), 0)
    ELSE IF NatBelow(n, f)
    THEN FRound(BigSub(Significand(f), ShiftLeft(NatDigits(n), Precision - 1 - f.e)),
                Precision - 1 - f.e)
    ELSE FRound(BigSub(ShiftLeft(NatDigits(n), Precision - 1 - f.e), Significand(f)),
                Precision - 1 - f.e)

\* the sum of an integer and a double with its sign apart: the sign and the
\* magnitude of the result
SignedSum(n, negative, f) ==
    IF (n < 0) = negative
    THEN [negative |-> negative, magnitude |-> NatPlus(Abs(n), f)]
    ELSE [negative |-> (n < 0) # NatBelow(Abs(n), f), magnitude |-> NatMinus(Abs(n), f)]

---------------------------------------------------------------------------
(* drawing.py: normalize_coord *)

\* the 1000.0 of drawing.py:228
CoordScale == 1000

\* the sign of coord / 1000.0 * max_val put on its magnitude: int() truncates
\* toward zero, so the magnitude is truncated and the sign goes through
Signed(c, extent, magnitude) ==
    IF (c < 0) # (extent < 0) THEN 0 - magnitude ELSE magnitude

Clamped(v, extent) == IF v < 0 THEN 0 ELSE IF v > extent THEN extent ELSE v

\* mutant of normalize_coord: the result is clamped into the image
normalize_coord_clamped(c, extent) ==
    Clamped(Signed(c, extent, FTrunc(FMulNat(FDivNat(Abs(c), CoordScale), Abs(extent)))),
            extent)

\* int((coord / 1000.0) * max_val): the division and the product are rounded
\* to double
normalize_coord(c, extent) ==
    Signed(c, extent, FTrunc(FMulNat(FDivNat(Abs(c), CoordScale), Abs(extent))))

---------------------------------------------------------------------------
(* drawing.py: the raster primitives, and main.py: the digit glyphs.        *)
(* A buffer is the sequence of its bytes, four for each pixel, row by row    *)

\* a call of a primitive and its arguments; size is also the radius of a
\* circle and the number of a glyph
Shape(prim, x, y, x2, y2, size, thickness, filled, color) ==
    [prim |-> prim, x |-> x, y |-> y, x2 |-> x2, y2 |-> y2, size |-> size,
     thickness |-> thickness, filled |-> filled, color |-> color]

NoShape == Shape("none", 0, 0, 0, 0, 0, 0, FALSE, <<>>)
NoPen == [x |-> 0, y |-> 0, err |-> 0]

\* range(a, b)
Range(a, b) == [k \in 1..(IF b > a THEN b - a ELSE 0) |-> a + k - 1]

\* the pairs of two nested for loops, in the order the loops visit them
Nested(outer, inner) ==
    [k \in 1..(Len(outer) * Len(inner)) |->
        <<outer[((k - 1) \div Len(inner)) + 1], inner[((k - 1) % Len(inner)) + 1]>>]

\* drawing.py:36, 45, 135, 136: range(-thickness // 2, thickness // 2 + 1);
\* -thickness // 2 is the floor of -thickness / 2
ThicknessRange(thickness) == Range((0 - thickness) \div 2, (thickness \div 2) + 1)

\* data[at:at + 4] = bytes(...) for at >= 0: a slice assignment, which
\* replaces what the slice holds (nothing, past the end) by the bytes
SliceAssign(data, at, bytes) ==
    SubSeq(data, 1, Min({at, Len(data)}))
    \o bytes
    \o SubSeq(data, Min({at + Len(bytes), Len(data)}) + 1, Len(data))

\* mutant of InBounds: the right and the bottom edge are let through
InBoundsInclusive(px, py, width, height) ==
    0 <= px /\ px <= width /\ 0 <= py /\ py <= height

\* drawing.py:39, 48, 59, 92, 100, 139 and main.py:349
InBounds(px, py, width, height) ==
    0 <= px /\ px < width /\ 0 <= py /\ py < height

\* drawing.py:39-41: one guarded write
PutPixel(data, width, height, px, py, color) ==
    IF InBounds(px, py, width, height)
    THEN SliceAssign(data, (py * width + px) * 4, color)
    ELSE data

\* the guarded writes of points from to upto, in order. The list is halved
\* and the buffer left by the first half is bound before the second half is
\* applied to it, which keeps the evaluation shallow.
RECURSIVE Plot(_, _, _, _, _, _, _)
Plot(data, width, height, points, from, upto, color) ==
    IF from > upto THEN data
    ELSE IF from = upto
    THEN PutPixel(data, width, height, points[from][1], points[from][2], color)
    ELSE CHOOSE done \in
             {Plot(half, width, height, points, ((from + upto) \div 2) + 1, upto, color) :
                 half \in {Plot(data, width, height, points, from, (from + upto) \div 2, color)}} :
             TRUE

\* the points of a list that pass the guard: the pixels written
Written(points, width, height) ==
    SelectSeq(points, LAMBDA p : InBounds(p[1], p[2], width, height))

\* the pairs <<row, col>> of two nested loops put on (x, y)
AtRowCol(x, y, pairs) == [k \in 1..Len(pairs) |-> <<x + pairs[k][2], y + pairs[k][1]>>]

\* the pairs <<col, row>> of two nested loops put on (x, y)
AtColRow(x, y, pairs) == [k \in 1..Len(pairs) |-> <<x + pairs[k][1], y + pairs[k][2]>>]

\* the outer loop runs over the rows (dy, cy, ty), the inner over the columns
RowMajor(x, y, rows, cols) == AtRowCol(x, y, Nested(rows, cols))

\* the outer loop runs over the columns (dx), the inner over the rows
ColMajor(x, y, cols, rows) == AtColRow(x, y, Nested(cols, rows))

\* drawing.py:53-61: the disc at the centre of a crosshair
CenterRadius == 3

Disc(x, y, radius) ==
    SelectSeq(RowMajor(x, y, Range(0 - radius, radius + 1), Range(0 - radius, radius + 1)),
              LAMBDA p : (p[1] - x) * (p[1] - x) + (p[2] - y) * (p[2] - y) <= radius * radius)

\* drawing.py:35-61: the points draw_crosshair tests, in order
CrosshairPoints(x, y, size, thickness) ==
    ColMajor(x, y, Range(0 - size, size + 1), ThicknessRange(thickness))
    \o RowMajor(x, y, Range(0 - size, size + 1), ThicknessRange(thickness))
    \o Disc(x, y, CenterRadius)

\* mutant of Ring: the ring is one pixel thinner on the inside
RingThin(x, y, radius) ==
    SelectSeq(RowMajor(x, y, Range(0 - radius, radius + 1), Range(0 - radius, radius + 1)),
              LAMBDA p : /\ (radius - 1) * (radius - 1)
                               <= (p[1] - x) * (p[1] - x) + (p[2] - y) * (p[2] - y)
                         /\ (p[1] - x) * (p[1] - x) + (p[2] - y) * (p[2] - y)
                               <= radius * radius)

\* drawing.py:96-102: the hollow circle
Ring(x, y, radius) ==
    SelectSeq(RowMajor(x, y, Range(0 - radius, radius + 1), Range(0 - radius, radius + 1)),
              LAMBDA p : /\ (radius - 2) * (radius - 2)
                               <= (p[1] - x) * (p[1] - x) + (p[2] - y) * (p[2] - y)
                         /\ (p[1] - x) * (p[1] - x) + (p[2] - y) * (p[2] - y)
                               <= radius * radius)

\* drawing.py:85-102: the points draw_circle writes when they are in bounds
CirclePoints(x, y, radius, filled) ==
    IF filled THEN Disc(x, y, radius) ELSE Ring(x, y, radius)

\* drawing.py:135-138: the square stamped at a stepped pixel of a line
StampPoints(x, y, thickness) ==
    RowMajor(x, y, ThicknessRange(thickness), ThicknessRange(thickness))

\* main.py:314-325
_DIGITS == <<
    << <<" ", "#", "#", "#", " ">>,
       <<"#", " ", " ", " ", "#">>,
       <<"#", " ", " ", " ", "#">>,
       <<"#", " ", " ", " ", "#">>,
       <<"#", " ", " ", " ", "#">>,
       <<"#", " ", " ", " ", "#">>,
       <<" ", "#", "#", "#", " ">> >>,
    << <<" ", " ", "#", " ", " ">>,
       <<" ", "#", "#", " ", " ">>,
       <<" ", " ", "#", " ", " ">>,
       <<" ", " ", "#", " ", " ">>,
       <<" ", " ", "#", " ", " ">>,
       <<" ", " ", "#", " ", " ">>,
       <<" ", "#", "#", "#", " ">> >>,
    << <<" ", "#", "#", "#", " ">>,
       <<"#", " ", " ", " ", "#">>,
       <<" ", " ", " ", " ", "#">>,
       <<" ", " ", "#", "#", " ">>,
       <<" ", "#", " ", " ", " ">>,
       <<"#", " ", " ", " ", " ">>,
       <<"#", "#", "#", "#", "#">> >>,
    << <<" ", "#", "#", "#", " ">>,
       <<"#", " ", " ", " ", "#">>,
       <<" ", " ", " ", " ", "#">>,
       <<" ", " ", "#", "#", " ">>,
       <<" ", " ", " ", " ", "#">>,
       <<"#", " ", " ", " ", "#">>,
       <<" ", "#", "#", "#", " ">> >>,
    << <<" ", " ", " ", "#", " ">>,
       <<" ", " ", "#", "#", " ">>,
       <<" ", "#", " ", "#", " ">>,
       <<"#", " ", " ", "#", " ">>,
       <<"#", "#", "#", "#", "#">>,
       <<" ", " ", " ", "#", " ">>,
       <<" ", " ", " ", "#", " ">> >>,
    << <<"#", "#", "#", "#", "#">>,
       <<"#", " ", " ", " ", " ">>,
       <<"#", "#", "#", "#", " ">>,
       <<" ", " ", " ", " ", "#">>,
       <<" ", " ", " ", " ", "#">>,
       <<"#", " ", " ", " ", "#">>,
       <<" ", "#", "#", "#", " ">> >>,
    << <<" ", "#", "#", "#", " ">>,
       <<"#", " ", " ", " ", " ">>,
       <<"#", " ", " ", " ", " ">>,
       <<"#", "#", "#", "#", " ">>,
       <<"#", " ", " ", " ", "#">>,
       <<"#", " ", " ", " ", "#">>,
       <<" ", "#", "#", "#", " ">> >>,
    << <<"#", "#", "#", "#", "#">>,
       <<" ", " ", " ", " ", "#">>,
       <<" ", " ", " ", "#", " ">>,
       <<" ", " ", "#", " ", " ">>,
       <<" ", " ", "#", " ", " ">>,
       <<" ", " ", "#", " ", " ">>,
       <<" ", " ", "#", " ", " ">> >>,
    << <<" ", "#", "#", "#", " ">>,
       <<"#", " ", " ", " ", "#">>,
       <<"#", " ", " ", " ", "#">>,
       <<" ", "#", "#", "#", " ">>,
       <<"#", " ", " ", " ", "#">>,
       <<"#", " ", " ", " ", "#">>,
       <<" ", "#", "#", "#", " ">> >>,
    << <<" ", "#", "#", "#", " ">>,
       <<"#", " ", " ", " ", "#">>,
       <<"#", " ", " ", " ", "#">>,
       <<" ", "#", "#", "#", "#">>,
       <<" ", " ", " ", " ", "#">>,
       <<" ", " ", " ", " ", "#">>,
       <<" ", "#", "#", "#", " ">> >> >>

\* main.py:342-348: the 2 x 2 cells of one glyph whose font pixel is set, the
\* glyph starting at (x, y)
GlyphCells(x, y, glyph) ==
    SelectSeq([k \in 1..(7 * 5 * 2 * 2) |->
                  [px  |-> x + (((k - 1) \div 4) % 5) * 2 + ((k - 1) % 2),
                   py  |-> y + ((k - 1) \div 20) * 2 + (((k - 1) \div 2) % 2),
                   ink |-> glyph[((k - 1) \div 20) + 1][(((k - 1) \div 4) % 5) + 1]]],
              LAMBDA c : c.ink = "#")

PointsOfCells(cells) == [k \in 1..Len(cells) |-> <<cells[k].px, cells[k].py>>]

\* main.py:337-352: the points _draw_action_number tests for the first n
\* digits of the number, digit_offset growing by 12 with each digit
RECURSIVE GlyphPoints(_, _, _, _)
GlyphPoints(x, y, digits, n) ==
    IF n = 0 THEN <<>>
    ELSE GlyphPoints(x, y, digits, n - 1)
         \o PointsOfCells(GlyphCells(x + 12 * (n - 1), y, _DIGITS[DigitVal(digits[n]) + 1]))

\* drawing.py:125-131: the loop variables of draw_line before the loop
LineStart(line) ==
    [x   |-> line.x,
     y   |-> line.y,
     err |-> Abs(line.x2 - line.x) - Abs(line.y2 - line.y)]

\* mutant of LineDone: the loop ends in the column of the end point
LineDoneAtColumn(p, line) == p.x = line.x2

\* drawing.py:143
LineDone(p, line) == p.x = line.x2 /\ p.y = line.y2

\* drawing.py:146-152, with dx, dy, sx and sy of drawing.py:125-128
LineAdvance(p, line) ==
    [x   |-> IF 2 * p.err > 0 - Abs(line.y2 - line.y)
             THEN p.x + (IF line.x < line.x2 THEN 1 ELSE 0 - 1) ELSE p.x,
     y   |-> IF 2 * p.err < Abs(line.x2 - line.x)
             THEN p.y + (IF line.y < line.y2 THEN 1 ELSE 0 - 1) ELSE p.y,
     err |-> p.err
             - (IF 2 * p.err > 0 - Abs(line.y2 - line.y) THEN Abs(line.y2 - line.y) ELSE 0)
             + (IF 2 * p.err < Abs(line.x2 - line.x) THEN Abs(line.x2 - line.x) ELSE 0)]

---------------------------------------------------------------------------
(* Response fragments: the texts a response is concatenated from *)

Pieces == <<
    <<"l", "e", "f", "t", "_", "c", "l", "i", "c", "k", "(", "-", "0", ",", "0", "0", "7", ")">>,
    <<"r", "i", "g", "h", "t", "_", "c", "l", "i", "c", "k", "(", "5", ")">>,
    <<"d", "o", "u", "b", "l", "e", "_", "l", "e", "f", "t", "_", "c", "l", "i", "c", "k", " ", "(", "3", ",", " ", "-", "4", ",", " ", "9", ")">>,
    <<"d", "r", "a", "g", "(", "1", ",", "2", ",", "3", ",", "4", ",", "5", ")">>,
    <<"d", "r", "a", "g", "(", "1", "-", "2", " ", "3", ")">>,
    <<"t", "y", "p", "e", "(", "\"", " ", "a", " ", "b", "\"", ")">>,
    <<"t", "y", "p", "e", "(", "\"", "\"", ")">>,
    <<"t", "y", "p", "e", "(", " ", ")">>,
    <<"t", "y", "p", "e", "(", " ", "'", "x", "\"", " ", ")">>,
    <<"h", "i">>,
    <<" ">>,
    <<"\n">>,
    <<BackTick, BackTick, BackTick>>,
    <<"t", "y", "p", "e", "(", "\"">>,
    <<"r", "i", "g", "h", "t", "_", "c", "l", "i", "c", "k", "(", "5", "0", "0", ",", "2", "5", "0", ")">> >>

NumPieces == Len(Pieces)

\* the longest response, in fragments
MaxPieces == 3

RECURSIVE SeqsUpTo(_, _)
SeqsUpTo(S, n) ==
    IF n = 0 THEN {<<>>}
    ELSE LET shorter == SeqsUpTo(S, n - 1)
         IN  shorter \cup {Append(q, x) : q \in {r \in shorter : Len(r) = n - 1}, x \in S}

RECURSIVE Cat(_, _)
Cat(ids, n) == IF n = 0 THEN <<>> ELSE Cat(ids, n - 1) \o Pieces[ids[n]]

TextOf(ids) == Cat(ids, Len(ids))

---------------------------------------------------------------------------
(* The state main() starts with, and the values the variables of the loop  *)
(* hold while it does not run                                               *)

\* main.py:50-55, shortened to its first sentence
SEED_STORY == <<"I", " ", "a", "m", " ", "F", "r", "a", "n", "z", ".">>

\* main.py:509 and main.py:568, the two sentinels of last_actions
InitLiteral == <<"i", "n", "i", "t">>
WatchedLiteral == <<"w", "a", "t", "c", "h", "e", "d">>

\* main.py:508-511
MemoryInit == iteration = 0 /\ story = SEED_STORY /\ last_actions = <<InitLiteral>>

ParseIdle == resp = <<>> /\ content = <<>> /\ commands = <<>> /\ new_story = <<>>
CoordIdle == coord = 0 /\ max_val = 1 /\ pixel = 0
RasterIdle == rgba = <<>> /\ shape = NoShape /\ pen = NoPen /\ writes = <<>>
PerceiveIdle == annotated = <<>> /\ overlay = <<>>
ActIdle ==
    /\ executed = <<>> /\ idx = 0 /\ dispatched = <<>>
    /\ events = <<>> /\ printed = <<>> /\ failed = {}

---------------------------------------------------------------------------
(* The parser applied to every response of up to MaxPieces fragments *)

InitParse ==
    /\ pc = "understand"
    /\ resp \in SeqsUpTo(1..NumPieces, MaxPieces)
    /\ content = TextOf(resp)
    /\ commands = <<>>
    /\ new_story = <<>>
    /\ MemoryInit /\ transport = "none" /\ PerceiveIdle /\ ActIdle /\ CoordIdle /\ RasterIdle

\* main.py:550
Understand ==
    /\ pc = "understand"
    /\ LET parsed == parse_response(content)
       IN  /\ commands' = parsed.commands
           /\ new_story' = parsed.story
    /\ pc' = "act"
    /\ UNCHANGED <<resp, content, coordVars, loopVars, rasterVars>>

NextParse == Understand

SpecParse == InitParse /\ [][NextParse]_vars



---------------------------------------------------------------------------
(* The coordinate mapper applied to every coord from MaxOutside below 0 to  *)
(* MaxOutside above 1000, for each extent                                   *)

\* main.py:31-32, the extents draw_annotations maps to
TARGET_WIDTH == 1536
TARGET_HEIGHT == 864

\* how far outside [0, 1000] the coordinates go
MaxOutside == 1000
\* the small extents
MaxExtent == 3

\* extents where the rounded product falls just short of an integer
\* (0.58 * 50, 0.29 * 100) stand beside the small and the target extents
Extents == (1..MaxExtent) \cup {50, 100, TARGET_HEIGHT, TARGET_WIDTH}

InitCoord ==
    /\ pc = "map"
    /\ ParseIdle
    /\ MemoryInit /\ transport = "none" /\ PerceiveIdle /\ ActIdle /\ RasterIdle
    /\ max_val \in Extents
    /\ coord = 0 - MaxOutside
    /\ pixel = normalize_coord(coord, max_val)

\* drawing.py:228, for the next coord
MapNext ==
    /\ pc = "map"
    /\ coord < CoordScale + MaxOutside
    /\ coord' = coord + 1
    /\ pixel' = normalize_coord(coord', max_val)
    /\ UNCHANGED <<pc, parseVars, max_val, loopVars, rasterVars>>

NextCoord == MapNext

SpecCoord == InitCoord /\ [][NextCoord]_vars

---------------------------------------------------------------------------
(* What each fragment is, for stating what the parser must return *)

\* fragments that are one complete call: keyword, "(", arguments, ")"
CallPieces == {i \in 1..NumPieces : Pieces[i][Len(Pieces[i])] = ")"}
PieceWith(text) == CHOOSE i \in 1..NumPieces : Pieces[i] = text
ProsePiece == PieceWith(<<"h", "i">>)
SpacePiece == PieceWith(<<" ">>)
LinePiece == PieceWith(<<"\n">>)
FencePiece == PieceWith(Fence)
\* the fragment that opens a call and does not close it
OpenPiece == PieceWith(<<"t", "y", "p", "e", "(", "\"">>)

\* the action a well-formed call fragment denotes
ExpectedAction(id) ==
    CASE id = 1 -> [func |-> "left_click", params |-> <<0, 7>>]
      [] id = 3 -> [func |-> "double_left_click", params |-> <<3, 0 - 4>>]
      [] id = 4 -> [func |-> "drag", params |-> <<1, 2, 3, 4>>]
      [] id = 6 -> [func |-> "type", params |-> << <<" ", "a", " ", "b">> >>]
      [] id = 9 -> [func |-> "type", params |-> << <<"'", "x", "\"">> >>]
      [] id = 15 -> [func |-> "right_click", params |-> <<500, 250>>]

WellFormedPieces == {1, 3, 4, 6, 9, 15}
MalformedPieces == CallPieces \ WellFormedPieces

\* every call of r is closed within its own fragment
Closed(r) == \A i \in 1..Len(r) : r[i] # OpenPiece

EndsInWordChar(id) == IsWordChar(Pieces[id][Len(Pieces[id])])

\* fragment i of r is a call the scanner recognizes: a call fragment that
\* does not directly follow a word character
Recognized(r, i) ==
    /\ r[i] \in CallPieces
    /\ i = 1 \/ ~EndsInWordChar(r[i - 1])

RECURSIVE ExpectedCommands(_, _)
ExpectedCommands(r, n) ==
    IF n = 0 THEN <<>>
    ELSE IF Recognized(r, n) /\ r[n] \in WellFormedPieces
         THEN Append(ExpectedCommands(r, n - 1), ExpectedAction(r[n]))
         ELSE ExpectedCommands(r, n - 1)

\* the lines of r as intervals <<a, b>> of fragment indexes
RECURSIVE PieceLines(_, _, _)
PieceLines(r, i, a) ==
    IF i > Len(r) THEN (IF a <= Len(r) THEN << <<a, Len(r)>> >> ELSE <<>>)
    ELSE IF r[i] = LinePiece THEN << <<a, i - 1>> >> \o PieceLines(r, i + 1, i + 1)
    ELSE PieceLines(r, i + 1, a)

\* the fragments of a line that are not blanks
Body(r, ln) == {i \in ln[1]..ln[2] : r[i] # SpacePiece}

NarrativeLine(r, ln) ==
    /\ Body(r, ln) # {}
    /\ \A i \in ln[1]..ln[2] : ~Recognized(r, i)
    /\ r[Min(Body(r, ln))] # FencePiece

RECURSIVE CatRange(_, _, _)
CatRange(r, a, b) == IF a > b THEN <<>> ELSE CatRange(r, a, b - 1) \o Pieces[r[b]]

RECURSIVE ExpectedJoin(_, _, _)
ExpectedJoin(r, lns, n) ==
    IF n = 0 THEN <<>>
    ELSE LET before == ExpectedJoin(r, lns, n - 1)
             this   == CatRange(r, Min(Body(r, lns[n])), Max(Body(r, lns[n])))
         IN  IF ~NarrativeLine(r, lns[n]) THEN before
             ELSE IF before = <<>> THEN this
             ELSE before \o <<" ">> \o this

ExpectedStory(r) == LET lns == PieceLines(r, 1, 1) IN ExpectedJoin(r, lns, Len(lns))

Parsed == pc = "act"

---------------------------------------------------------------------------
(* create_visualization: the annotation composer *)

\* main.py:34
ENABLE_VISUAL_FEEDBACK == TRUE

\* drawing.py:7-10
RED == <<255, 0, 0, 255>>
GREEN == <<0, 255, 0, 255>>
BLUE == <<0, 150, 255, 255>>
YELLOW == <<255, 255, 0, 255>>

\* main.py:247-252
colors == << <<RED, GREEN>>, <<BLUE, YELLOW>>, <<GREEN, RED>>, <<YELLOW, BLUE>> >>

\* mutant of PairOf: the table is indexed by the counter itself
PairOfCounter(action_index) == colors[(action_index % Len(colors)) + 1]

\* main.py:253
PairOf(action_index) == colors[((action_index - 1) % Len(colors)) + 1]

\* one call of a raster primitive: which one, where, its size, radius or
\* digit, and how it is drawn
Mark(prim, at, to, arg, color, thickness, filled) ==
    [prim |-> prim, at |-> at, to |-> to, arg |-> arg, color |-> color,
     thickness |-> thickness, filled |-> filled]

draw_crosshair(x, y, size, color, thickness) ==
    Mark("draw_crosshair", <<x, y>>, <<x, y>>, size, color, thickness, FALSE)

draw_circle(x, y, radius, color, filled) ==
    Mark("draw_circle", <<x, y>>, <<x, y>>, radius, color, 0, filled)

draw_arrow(x1, y1, x2, y2, color, thickness) ==
    Mark("draw_arrow", <<x1, y1>>, <<x2, y2>>, 0, color, thickness, FALSE)

\* main.py:337-352: one glyph for each digit of str(number), 12 apart
_draw_action_number(x, y, number, color) ==
    [j \in 1..Len(NatToStr(number)) |->
        Mark("_DIGITS", <<x + 12 * (j - 1), y>>, <<x + 12 * (j - 1), y>>,
             DigitVal(NatToStr(number)[j]), color, 0, TRUE)]

\* main.py:266, 282, 304: len(last_actions) is count
Numbered(action_index, count) == action_index > 1 \/ count > 1

\* main.py:258-269 and main.py:274-285: the marks of a click at (x, y)
ClickMarks(x, y, cross, ring, action_index, count) ==
    <<draw_crosshair(x, y, 25, cross, 3), draw_circle(x, y, 40, ring, FALSE)>>
    \o (IF Numbered(action_index, count)
        THEN _draw_action_number(x + 30, y - 30, action_index, cross)
        ELSE <<>>)

\* main.py:292-307: the marks of a drag from (x1, y1) to (x2, y2)
DragMarks(x1, y1, x2, y2, primary, secondary, action_index, count) ==
    <<draw_arrow(x1, y1, x2, y2, primary, 4),
      draw_circle(x1, y1, 15, secondary, TRUE),
      draw_circle(x2, y2, 15, primary, TRUE)>>
    \o (IF Numbered(action_index, count)
        THEN _draw_action_number(x1 + 20, y1 - 20, action_index, primary)
        ELSE <<>>)

\* main.py:253-307: what one counted entry draws
DrawEntry(func_name, params, action_index, count, width, height) ==
    IF func_name \in {"left_click", "double_left_click"} /\ Len(params) = 2
    THEN ClickMarks(normalize_coord(params[1], width), normalize_coord(params[2], height),
                    PairOf(action_index)[1], PairOf(action_index)[2], action_index, count)
    ELSE IF func_name = "right_click" /\ Len(params) = 2
    THEN ClickMarks(normalize_coord(params[1], width), normalize_coord(params[2], height),
                    BLUE, YELLOW, action_index, count)
    ELSE IF func_name = "drag" /\ Len(params) = 4
    THEN DragMarks(normalize_coord(params[1], width), normalize_coord(params[2], height),
                   normalize_coord(params[3], width), normalize_coord(params[4], height),
                   PairOf(action_index)[1], PairOf(action_index)[2], action_index, count)
    ELSE <<>>

\* main.py:236-244: the match in the entry and its arguments, None when the
\* entry has no call or the arguments do not parse
ParamsOfMatch(match) ==
    IF ~match.found THEN None ELSE _parse_args(match.func, Strip(match.args))

\* main.py:233-244: None for an entry the loop skips
ParamsOfEntry(action_str) ==
    IF action_str = InitLiteral THEN None ELSE ParamsOfMatch(Search(action_str, 1))

RECURSIVE AnnotateLoop(_, _, _, _, _)

\* main.py:246-307 for entry i, whose arguments are params, and the loop
\* after it
AnnotateEntry(actions, i, action_index, params, width, height) ==
    IF ~params.some
    THEN <<[action_index |-> action_index, marks |-> <<>>]>>
         \o AnnotateLoop(actions, i + 1, action_index, width, height)
    ELSE <<[action_index |-> action_index + 1,
            marks |-> DrawEntry(Search(actions[i], 1).func, params.params,
                                action_index + 1, Len(actions), width, height)]>>
         \o AnnotateLoop(actions, i + 1, action_index + 1, width, height)

\* main.py:231-307: the loop over last_actions from entry i on, entered with
\* action_index; for each entry, the value of action_index after it and the
\* calls made for it
AnnotateLoop(actions, i, action_index, width, height) ==
    IF i > Len(actions) THEN <<>>
    ELSE AnnotateEntry(actions, i, action_index, ParamsOfEntry(actions[i]), width, height)

\* main.py:227-309
draw_annotations(actions, width, height) ==
    IF ~ENABLE_VISUAL_FEEDBACK THEN [i \in 1..Len(actions) |-> [action_index |-> 0, marks |-> <<>>]]
    ELSE AnnotateLoop(actions, 1, 0, width, height)

---------------------------------------------------------------------------
(* execute_action: the calls to the OS input surface and the lines printed *)

\* main.py:38
MOVEMENT_STEPS == 20

\* GetSystemMetrics(0) and GetSystemMetrics(1), main.py:422-423: the screen
\* of the machine the agent runs on
Screen == [w |-> 1920, h |-> 1080]

\* one call of user32 with its integer arguments; ok tells whether the
\* call did what it was asked to
OsCall(call, args) == [call |-> call, args |-> args, ok |-> TRUE]

\* main.py:362, with the position the OS answers
GetCursorPos(x, y) == OsCall("GetCursorPos", <<x, y>>)
SetCursorPos(x, y) == OsCall("SetCursorPos", <<x, y>>)
mouse_event(flags) == OsCall("mouse_event", <<flags>>)
keybd_event(vk_code, flags) == OsCall("keybd_event", <<vk_code, flags>>)

\* one printed line: which print statement, the numbers and the text put
\* into it
Line(stmt, nums, text) == [stmt |-> stmt, nums |-> nums, text |-> text]

\* main.py:426, the expression of drawing.py:228 with the screen extent
ScreenPixel(param, extent) ==
    Signed(param, extent, FTrunc(FMulNat(FDivNat(Abs(param), CoordScale), Abs(extent))))

\* main.py:374-375 and main.py:478-479: t = i / steps; t = t * t * (3 - 2 * t)
Smoothstep(i, steps) ==
    FMul(FMul(FDivNat(i, steps), FDivNat(i, steps)),
         NatMinus(3, FMulNat(FDivNat(i, steps), 2)))

\* t for each i of range(MOVEMENT_STEPS + 1)
Schedule == [i \in 0..MOVEMENT_STEPS |-> Smoothstep(i, MOVEMENT_STEPS)]

\* main.py:377-378 and main.py:480-481: int(start + (target - start) * t)
Interpolated(start, target, t) ==
    IF SignedSum(start, target < start, FMulNat(t, Abs(target - start))).negative
    THEN 0 - FTrunc(SignedSum(start, target < start, FMulNat(t, Abs(target - start))).magnitude)
    ELSE FTrunc(SignedSum(start, target < start, FMulNat(t, Abs(target - start))).magnitude)

\* main.py:373-380 and main.py:477-483: MOVEMENT_STEPS + 1 calls of
\* SetCursorPos on the way from the point from to (target_x, target_y)
Glide(from, target_x, target_y) ==
    [j \in 1..(MOVEMENT_STEPS + 1) |->
        SetCursorPos(Interpolated(from[1], target_x, Schedule[j - 1]),
                     Interpolated(from[2], target_y, Schedule[j - 1]))]

\* main.py:366-381; cursor is the answer of get_cursor_position
smooth_move_to(cursor, target_x, target_y) ==
    <<GetCursorPos(cursor[1], cursor[2])>> \o Glide(cursor, target_x, target_y)

\* main.py:384-388
press_key(vk_code) == <<keybd_event(vk_code, 0), keybd_event(vk_code, 2)>>

LowerCase == <<"a", "b", "c", "d", "e", "f", "g", "h", "i", "j", "k", "l", "m",
               "n", "o", "p", "q", "r", "s", "t", "u", "v", "w", "x", "y", "z">>

\* user32.VkKeyScanW on the characters of the model's alphabet (US layout):
\* the virtual key code, plus 256 when shift is needed; -1 when no key gives
\* the character
VkKeyScanW(char) ==
    IF char \in Letters THEN 64 + (CHOOSE k \in 1..Len(LowerCase) : LowerCase[k] = char)
    ELSE IF IsDigit(char) THEN 48 + DigitVal(char)
    ELSE CASE char = "'" -> 222
           [] char = "\"" -> 256 + 222
           [] char = "," -> 188
           [] char = "-" -> 189
           [] char = "_" -> 256 + 189
           [] char = "(" -> 256 + 57
           [] char = BackTick -> 192
           [] OTHER -> 0 - 1

\* main.py:404-415, for the answer vk of VkKeyScanW
KeyCalls(vk) ==
    IF vk = 0 - 1 THEN <<>>
    ELSE IF (vk \div 256) % 2 = 1
    THEN <<keybd_event(16, 0)>> \o press_key(vk % 256) \o <<keybd_event(16, 2)>>
    ELSE press_key(vk % 256)

\* main.py:396-415, for one character
TypeChar(char) ==
    IF char = " " THEN press_key(32)
    ELSE IF char = "\n" THEN press_key(13)
    ELSE KeyCalls(VkKeyScanW(char))

RECURSIVE TypeChars(_, _)
TypeChars(text, n) ==
    IF n = 0 THEN <<>> ELSE TypeChars(text, n - 1) \o TypeChar(text[n])

\* main.py:391-417
type_text(text) ==
    [calls   |-> TypeChars(text, Len(text)),
     printed |-> <<Line("typing", <<>>, text)>>]

\* main.py:428-434, 439-445, 450-460: move to (tx, ty), print, press and
\* release the button pulses times
ClickAt(cursor, tx, ty, words, down, up, pulses) ==
    [calls   |-> smooth_move_to(cursor, tx, ty)
                 \o [j \in 1..(2 * pulses) |-> mouse_event(IF j % 2 = 1 THEN down ELSE up)],
     printed |-> <<Line("moving to", <<tx, ty>>, <<>>), Line(words, <<>>, <<>>)>>]

\* the pointer between the last SetCursorPos of smooth_move_to and the
\* get_cursor_position of main.py:476: left where it was put
Still == <<>>

\* what GetCursorPos answers after the press: the point (x1, y1) the pointer
\* was put at, or the point it was moved to since
Sampled(x1, y1, moved) == IF moved = Still THEN <<x1, y1>> ELSE moved

\* mutant of DragOrigin: the drag runs from the nominal start point
DragOriginNominal(sampled, x1, y1) == <<x1, y1>>

\* main.py:476: sx, sy = get_cursor_position()
DragOrigin(sampled, x1, y1) == sampled

\* main.py:476-483
DragFrom(sampled, x1, y1, x2, y2) ==
    <<GetCursorPos(sampled[1], sampled[2])>> \o Glide(DragOrigin(sampled, x1, y1), x2, y2)

\* main.py:468-487
DragBetween(cursor, moved, x1, y1, x2, y2) ==
    [calls   |-> smooth_move_to(cursor, x1, y1) \o <<mouse_event(2)>>
                 \o DragFrom(Sampled(x1, y1, moved), x1, y1, x2, y2) \o <<mouse_event(4)>>,
     printed |-> <<Line("moving to drag start", <<x1, y1>>, <<>>),
                   Line("grabbing", <<>>, <<>>),
                   Line("dragging to", <<x2, y2>>, <<>>),
                   Line("releasing", <<>>, <<>>)>>]

\* main.py:420-490; cursor is where the pointer is when the action starts,
\* moved where it is moved to while a drag holds the button down
execute_action(func_name, params, cursor, moved) ==
    IF func_name = "left_click" /\ Len(params) = 2
    THEN ClickAt(cursor, ScreenPixel(params[1], Screen.w), ScreenPixel(params[2], Screen.h),
                 "left click", 2, 4, 1)
    ELSE IF func_name = "right_click" /\ Len(params) = 2
    THEN ClickAt(cursor, ScreenPixel(params[1], Screen.w), ScreenPixel(params[2], Screen.h),
                 "right click", 8, 16, 1)
    ELSE IF func_name = "double_left_click" /\ Len(params) = 2
    THEN ClickAt(cursor, ScreenPixel(params[1], Screen.w), ScreenPixel(params[2], Screen.h),
                 "double click", 2, 4, 2)
    ELSE IF func_name = "drag" /\ Len(params) = 4
    THEN DragBetween(cursor, moved,
                     ScreenPixel(params[1], Screen.w), ScreenPixel(params[2], Screen.h),
                     ScreenPixel(params[3], Screen.w), ScreenPixel(params[4], Screen.h))
    ELSE IF func_name = "type" /\ Len(params) = 1
    THEN type_text(params[1])
    ELSE [calls |-> <<>>, printed |-> <<>>]

---------------------------------------------------------------------------
(* main(): the perceive / think / understand / act / remember cycle *)

\* the number of cycles the loop is followed for
MaxCycles == 3

\* the responses infer can return, as fragments:
\*   hi
\*   (nothing)
\*   type(" a b") / left_click(-0,007) / type( 'x" )    on three lines
\*   hi / drag(1,2,3,4,5) right_click(5) double_left_click (3, -4, 9)
\*   right_click(500,250) left_click(-0,007)
\*   right_click(5)
\*   right_click(500,250) / hi hi
Responses == <<
    <<ProsePiece>>,
    <<>>,
    <<6, LinePiece, 1, LinePiece, 9>>,
    <<ProsePiece, LinePiece, 4, SpacePiece, 2, SpacePiece, 3>>,
    <<15, SpacePiece, 1>>,
    <<2>>,
    <<15, LinePiece, ProsePiece, SpacePiece, ProsePiece>> >>

\* screenshot.capture_screen_png (main.py:531): the capture collaborator
\* hands a width x height buffer to the overlay callback once, before it
\* encodes the image
capture_screen_png(width, height, actions) == draw_annotations(actions, width, height)

Init ==
    /\ pc = "perceive"
    /\ MemoryInit /\ transport = "none"
    /\ ParseIdle /\ PerceiveIdle /\ ActIdle /\ CoordIdle /\ RasterIdle

\* main.py:524-542; the lists of what this cycle does start empty
Perceive ==
    /\ pc = "perceive"
    /\ iteration < MaxCycles
    /\ iteration' = iteration + 1
    /\ annotated' = last_actions
    /\ overlay' = capture_screen_png(TARGET_WIDTH, TARGET_HEIGHT, last_actions)
    /\ dispatched' = <<>> /\ events' = <<>> /\ printed' = <<>> /\ failed' = {}
    /\ pc' = "think"
    /\ UNCHANGED <<story, last_actions, transport, parseVars, executed, idx, coordVars, rasterVars>>

\* main.py:546, infer returns the text of response r
InferReturns(r) ==
    /\ transport' = "ok"
    /\ resp' = r
    /\ content' = TextOf(r)
    /\ pc' = "understand"
    /\ UNCHANGED <<commands, new_story, memoryVars, perceiveVars, actVars, coordVars, rasterVars>>

\* mutant of InferRaises: the failure is caught and the cycle goes on with
\* an empty response
InferRaisesCaught ==
    /\ transport' = "failed"
    /\ resp' = <<>>
    /\ content' = <<>>
    /\ pc' = "understand"
    /\ UNCHANGED <<commands, new_story, memoryVars, perceiveVars, actVars, coordVars, rasterVars>>

\* main.py:546 with main.py:155-162: urlopen, json.load or the lookup in the
\* answer raises; nothing in infer or main catches it, and main() ends
InferRaises ==
    /\ transport' = "failed"
    /\ pc' = "crashed"
    /\ UNCHANGED <<parseVars, memoryVars, perceiveVars, actVars, coordVars, rasterVars>>

\* main.py:544-547
Think ==
    /\ pc = "think"
    /\ \/ \E k \in 1..Len(Responses) : InferReturns(Responses[k])
       \/ InferRaises

\* main.py:553-557 and main.py:565-566
BeginAct ==
    /\ pc = "act"
    /\ executed' = <<>>
    /\ IF commands # <<>>
       THEN /\ printed' = <<Line("acting", <<Len(commands)>>, <<>>)>>
            /\ idx' = 1
            /\ pc' = "replay"
       ELSE /\ printed' = <<Line("watching", <<>>, <<>>)>>
            /\ idx' = 0
            /\ pc' = "remember"
    /\ UNCHANGED <<parseVars, memoryVars, transport, perceiveVars,
                   dispatched, events, failed, coordVars, rasterVars>>

\* where the pointer is when an action of the main loop starts, and what
\* happens to it while a drag holds the button: a GetCursorPos that fails
\* leaves the POINT of main.py:361 at (0, 0)
Home == {<<0, 0>>}
Held == {Still}

\* the calls of an action that act on the pointer and the keyboard
InputCalls(calls) == {j \in 1..Len(calls) : calls[j].call # "GetCursorPos"}

\* main.py:558-564, one turn of the loop over commands, with the pointer at
\* one of cursors when the action starts and moved as one of moves says.
\* Each input call of user32 inside execute_action may fail; the code reads
\* no return value, so a failed call changes nothing but what the OS did
Execute(cursors, moves) ==
    /\ pc = "replay"
    /\ \E cursor \in cursors : \E moved \in moves :
       \E run \in {execute_action(commands[idx].func, commands[idx].params, cursor, moved)} :
       \E cmd_str \in {format_command(commands[idx].func, commands[idx].params)} :
           /\ \E fail \in {0} \cup InputCalls(run.calls) :
                /\ events' = [j \in 1..Len(run.calls) |->
                                 [run.calls[j] EXCEPT !.ok = (j # fail)]]
                /\ failed' = IF fail = 0 THEN failed ELSE failed \cup {idx}
           /\ printed' = printed \o <<Line("command", <<idx, Len(commands)>>, cmd_str)>>
                         \o run.printed
           /\ dispatched' = Append(dispatched, commands[idx])
           /\ executed' = Append(executed, cmd_str)
           /\ IF idx < Len(commands)
              THEN idx' = idx + 1 /\ pc' = "replay"
              ELSE idx' = idx /\ pc' = "remember"
    /\ UNCHANGED <<parseVars, memoryVars, transport, perceiveVars, coordVars, rasterVars>>

ExecuteNext == Execute(Home, Held)

\* mutant of Remembered: the parsed narrative always replaces the story
RememberedAlways(old_story, parsed_story) == parsed_story

\* main.py:571-572
Remembered(old_story, parsed_story) ==
    IF parsed_story # <<>> THEN parsed_story ELSE old_story

\* mutant of LastActions: the literals are kept newest first
RECURSIVE LastActionsReversed(_)
LastActionsReversed(done) ==
    IF done = <<>> THEN <<WatchedLiteral>>
    ELSE IF Len(done) = 1 THEN done
    ELSE Append(LastActionsReversed(Tail(done)), Head(done))

\* main.py:568
LastActions(done) == IF done # <<>> THEN done ELSE <<WatchedLiteral>>

\* main.py:568-572
Remember ==
    /\ pc = "remember"
    /\ last_actions' = LastActions(executed)
    /\ story' = Remembered(story, new_story)
    /\ pc' = "rest"
    /\ UNCHANGED <<iteration, transport, parseVars, perceiveVars, actVars, coordVars, rasterVars>>

\* main.py:576-590: the state is written to disk and the loop sleeps
Rest ==
    /\ pc = "rest"
    /\ pc' = "perceive"
    /\ UNCHANGED <<parseVars, loopVars, coordVars, rasterVars>>

Next == Perceive \/ Think \/ Understand \/ BeginAct \/ ExecuteNext \/ Remember \/ Rest

Spec == Init /\ [][Next]_vars

---------------------------------------------------------------------------
(* The replay of one drag, with the pointer at each place of Pointers when *)
(* the action starts, and left still or moved to one of them while the     *)
(* button is held                                                           *)

\* the start and end points of the drags, normalized: 521 and 463 are the
\* pixels 1000 and 500, -5 is left of the screen and 1000 the pixel past
\* its right edge
DragStarts == {<<0, 463>>, <<521, 463>>, <<1000, 0>>}
DragEnds == {<<0 - 5, 0>>, <<521, 463>>, <<1000, 1000>>}

\* the corners and the middle of the screen
Pointers == {<<0, 0>>, <<Screen.w \div 2, Screen.h \div 2>>, <<Screen.w - 1, Screen.h - 1>>}

\* the response that asks for the drag from p1 to p2
DragText(p1, p2) == format_command("drag", <<p1[1], p1[2], p2[1], p2[2]>>)

\* main.py:558, entered in the first cycle with the one command of the
\* response
InitDrag ==
    /\ pc = "replay"
    /\ resp = <<>>
    /\ content \in {DragText(p1, p2) : p1 \in DragStarts, p2 \in DragEnds}
    /\ commands = parse_response(content).commands
    /\ new_story = parse_response(content).story
    /\ iteration = 1 /\ story = SEED_STORY /\ last_actions = <<InitLiteral>>
    /\ transport = "ok"
    /\ annotated = last_actions
    /\ overlay = capture_screen_png(TARGET_WIDTH, TARGET_HEIGHT, last_actions)
    /\ executed = <<>> /\ idx = 1 /\ dispatched = <<>> /\ events = <<>>
    /\ printed = <<Line("acting", <<Len(commands)>>, <<>>)>> /\ failed = {}
    /\ CoordIdle /\ RasterIdle

ReplayDrag == Execute(Pointers, Pointers \cup {Still})

NextDrag == ReplayDrag

SpecDrag == InitDrag /\ [][NextDrag]_vars

---------------------------------------------------------------------------
(* The annotation composer applied to every list of up to MaxActions of    *)
(* the literals below                                                       *)

Literals == <<
    InitLiteral,
    <<"l", "e", "f", "t", "_", "c", "l", "i", "c", "k", "(", "1", "0", "0", ",", "1", "0", "0", ")">>,
    <<"r", "i", "g", "h", "t", "_", "c", "l", "i", "c", "k", "(", "5", "0", "0", ",", "2", "5", "0", ")">>,
    <<"d", "r", "a", "g", "(", "1", "0", "0", ",", "2", "0", "0", ",", "9", "0", "0", ",", "8", "0", "0", ")">>,
    <<"t", "y", "p", "e", "(", "\"", "a", "\"", ")">>,
    <<"d", "o", "u", "b", "l", "e", "_", "l", "e", "f", "t", "_", "c", "l", "i", "c", "k", "(", "9", "0", "0", ",", "1", "0", "0", ")">>,
    <<"l", "e", "f", "t", "_", "c", "l", "i", "c", "k", "(", "5", ")">> >>

\* what each literal is
LiteralKind == <<"sentinel", "left_click", "right_click", "drag", "type",
                 "double_left_click", "unparseable">>

\* the longest list of previous actions
MaxActions == 5

LiteralsOf(ids) == [i \in 1..Len(ids) |-> Literals[ids[i]]]

InitAnnot ==
    /\ pc = "perceive"
    /\ iteration = 0 /\ story = SEED_STORY
    /\ last_actions \in {LiteralsOf(ids) : ids \in SeqsUpTo(1..Len(Literals), MaxActions)}
    /\ transport = "none"
    /\ ParseIdle /\ PerceiveIdle /\ ActIdle /\ CoordIdle /\ RasterIdle

NextAnnot == Perceive

SpecAnnot == InitAnnot /\ [][NextAnnot]_vars

---------------------------------------------------------------------------
(* The raster primitives applied to a blank buffer, for every centre up to  *)
(* Reach outside it, and draw_line followed turn by turn of its loop         *)

\* the buffer
CanvasWidth == 4
CanvasHeight == 3

\* how far outside the buffer the centres and the origins lie
Reach == 6
LineReach == 1
GlyphReach == 23

\* the largest arm of a crosshair, radius of a circle and thickness
MaxSize == 3
MaxRadius == 3
MaxThickness == 4

\* the thicknesses of the lines: the thinnest, and those of the annotation
\* composer's crosshair and arrow
LineThicknesses == {1, 3, 4}

\* the numbers drawn as glyphs
GlyphNumbers == {1, 8, 10, 47}

Blank(width, height) == [k \in 1..(width * height * 4) |-> 0]

Crosshairs ==
    {Shape("crosshair", x, y, x, y, size, thickness, FALSE, RED) :
        x \in (0 - Reach)..(CanvasWidth - 1 + Reach),
        y \in (0 - Reach)..(CanvasHeight - 1 + Reach),
        size \in 0..MaxSize, thickness \in 1..MaxThickness}

Circles ==
    {Shape("circle", x, y, x, y, radius, 0, filled, GREEN) :
        x \in (0 - Reach)..(CanvasWidth - 1 + Reach),
        y \in (0 - Reach)..(CanvasHeight - 1 + Reach),
        radius \in 0..MaxRadius, filled \in BOOLEAN}

Numbers ==
    {Shape("number", x, y, x, y, number, 0, FALSE, YELLOW) :
        x \in (0 - GlyphReach)..CanvasWidth,
        y \in (0 - GlyphReach)..CanvasHeight,
        number \in GlyphNumbers}

Lines ==
    {Shape("line", x, y, x2, y2, 0, thickness, FALSE, BLUE) :
        x \in (0 - LineReach)..(CanvasWidth - 1 + LineReach),
        y \in (0 - LineReach)..(CanvasHeight - 1 + LineReach),
        x2 \in (0 - LineReach)..(CanvasWidth - 1 + LineReach),
        y2 \in (0 - LineReach)..(CanvasHeight - 1 + LineReach),
        thickness \in LineThicknesses}

InitRaster ==
    /\ shape \in Crosshairs \cup Circles \cup Numbers \cup Lines
    /\ pc = (IF shape.prim = "line" THEN "line" ELSE "raster")
    /\ rgba = Blank(CanvasWidth, CanvasHeight)
    /\ pen = (IF shape.prim = "line" THEN LineStart(shape) ELSE NoPen)
    /\ writes = <<>>
    /\ ParseIdle /\ MemoryInit /\ transport = "none"
    /\ PerceiveIdle /\ ActIdle /\ CoordIdle

\* one call of a primitive that tests the points, in order
Draws(points) ==
    /\ rgba' = Plot(rgba, CanvasWidth, CanvasHeight, points, 1, Len(points), shape.color)
    /\ writes' = Written(points, CanvasWidth, CanvasHeight)
    /\ UNCHANGED <<shape, parseVars, coordVars, loopVars>>

\* drawing.py:15-63
DrawCrosshair ==
    /\ pc = "raster" /\ shape.prim = "crosshair"
    /\ \E points \in {CrosshairPoints(shape.x, shape.y, shape.size, shape.thickness)} :
          Draws(points)
    /\ pc' = "drawn"
    /\ UNCHANGED pen

\* drawing.py:66-104
DrawCircle ==
    /\ pc = "raster" /\ shape.prim = "circle"
    /\ \E points \in {CirclePoints(shape.x, shape.y, shape.size, shape.filled)} :
          Draws(points)
    /\ pc' = "drawn"
    /\ UNCHANGED pen

\* main.py:328-354
DrawNumber ==
    /\ pc = "raster" /\ shape.prim = "number"
    /\ \E points \in {GlyphPoints(shape.x, shape.y, NatToStr(shape.size), Len(NatToStr(shape.size)))} :
          Draws(points)
    /\ pc' = "drawn"
    /\ UNCHANGED pen

\* drawing.py:133-152: one turn of the loop of draw_line
LineStep ==
    /\ pc = "line"
    /\ \E points \in {StampPoints(pen.x, pen.y, shape.thickness)} :
          Draws(points)
    /\ IF LineDone(pen, shape)
       THEN pc' = "drawn" /\ pen' = pen
       ELSE pc' = "line" /\ pen' = LineAdvance(pen, shape)

NextRaster == DrawCrosshair \/ DrawCircle \/ DrawNumber \/ LineStep

SpecRaster == InitRaster /\ [][NextRaster]_vars

\* draw_line alone, its loop run until it ends
InitLine == InitRaster /\ shape.prim = "line"

NextLine == LineStep

FairLine == InitLine /\ [][NextLine]_vars /\ WF_vars(LineStep)

---------------------------------------------------------------------------
(* Claims about the parser and the formatter (specification SpecParse) *)

RoundTrip(c) ==
    LET literal == format_command(c.func, c.params)
        m       == Search(literal, 1)
        params  == _parse_args(m.func, Strip(m.args))
    IN  /\ m.found
        /\ m.func = c.func
        /\ params.some
        /\ params.params = c.params

\* C3: every action parse_response returns, rendered by format_command and
\* matched again by _FUNC_RE.search and _parse_args (as draw_annotations does),
\* gives the same func_name and the same params.
C3_RoundTrip ==
    Parsed => \A k \in 1..Len(commands) : RoundTrip(commands[k])

\* a returned type action whose payload holds a quote character, next to a
\* returned click whose arguments were written "-0" and "007"
C3_Witness ==
    /\ Parsed
    /\ \E k \in 1..Len(commands) :
          /\ commands[k].func = "type"
          /\ \E j \in 1..Len(commands[k].params[1]) : commands[k].params[1][j] = "\""
    /\ \E k \in 1..Len(commands) :
          commands[k].func = "left_click" /\ commands[k].params = <<0, 7>>

\* the response has no call the scanner recognizes
NoRecognizedCall(r) == Closed(r) /\ \A i \in 1..Len(r) : ~Recognized(r, i)

\* the response is one line with no blank at either end, not starting a fence
PlainSingleLine(r) ==
    /\ \A i \in 1..Len(r) : r[i] # LinePiece
    /\ r # <<>> => /\ r[1] \notin {SpacePiece, FencePiece}
                   /\ r[Len(r)] # SpacePiece

\* C4 as stated: a text with no recognized call parses to no action and to
\* the full text as the narrative.
C4_FullTextNarrative ==
    (Parsed /\ NoRecognizedCall(resp)) => (commands = <<>> /\ new_story = content)

\* C4, amended: a text with no recognized call parses to no action, and its
\* narrative is its non-blank lines that do not start a code fence, trimmed
\* and joined by single spaces; that is the full text exactly when the text
\* is a single line without surrounding blanks that starts no fence.
C4_NoCallNarrative ==
    (Parsed /\ NoRecognizedCall(resp)) =>
        /\ commands = <<>>
        /\ new_story = ExpectedStory(resp)
        /\ (new_story = content) <=> PlainSingleLine(resp)

\* two prose lines and no call: the narrative joins them with a space
C4_Witness ==
    /\ Parsed
    /\ NoRecognizedCall(resp)
    /\ \E i \in 2..(Len(resp) - 1) : resp[i] = LinePiece /\ resp[i - 1] = ProsePiece /\ resp[i + 1] = ProsePiece
    /\ new_story = <<"h", "i", " ", "h", "i">>

\* C5: the narrative is the non-blank lines that hold no recognized call
\* pattern and start no code fence, trimmed, joined by single spaces in line
\* order; a line with prose and a call gives nothing, also when the call is
\* dropped as malformed.
C5_Narrative ==
    (Parsed /\ Closed(resp)) => new_story = ExpectedStory(resp)

\* a prose line, then a line of prose and a malformed call: only the first
\* line is the narrative and no action is returned
C5_Witness ==
    /\ Parsed
    /\ Len(resp) = 3
    /\ resp[1] = ProsePiece /\ resp[2] = LinePiece /\ resp[3] \in MalformedPieces
    /\ commands = <<>>
    /\ new_story = <<"h", "i">>

\* C6: a call with too few integers, or a type call with an empty or missing
\* payload, gives no action; every other recognized call of the text is
\* returned, in text order, with only its first 2 (drag: 4) integers.
C6_DropOnlyOffending ==
    (Parsed /\ Closed(resp)) => commands = ExpectedCommands(resp, Len(resp))

\* a malformed call between two well-formed ones: both are returned, in order
C6_Witness ==
    /\ Parsed
    /\ Len(resp) = 3
    /\ resp[1] \in WellFormedPieces
    /\ resp[2] \in MalformedPieces
    /\ resp[3] = 4
    /\ Len(commands) = 2
    /\ commands[2] = [func |-> "drag", params |-> <<1, 2, 3, 4>>]

---------------------------------------------------------------------------
(* Claim about the coordinate mapper (specification SpecCoord) *)

\* C10: for coord in [0, 1000] and extent > 0 the mapped pixel does not
\* decrease when coord grows, lies in [0, extent], is 0 for coord 0 and is
\* exactly extent for coord 1000; outside [0, 1000] the result is not clamped:
\* coord 2000 gives twice the extent and coord -1000 gives minus the extent.
C10_Mapper ==
    /\ [][(coord >= 0 /\ coord' <= CoordScale) => pixel <= pixel']_vars
    /\ [](pc = "map" /\ coord \in 0..CoordScale => pixel \in 0..max_val)
    /\ [](pc = "map" /\ coord = 0 => pixel = 0)
    /\ [](pc = "map" /\ coord = CoordScale => pixel = max_val)
    /\ [](pc = "map" /\ coord = 2 * CoordScale => pixel = 2 * max_val)
    /\ [](pc = "map" /\ coord = 0 - CoordScale => pixel = 0 - max_val)

\* coord 1000 mapped to the target width, exactly
C10_Witness ==
    pc = "map" /\ coord = CoordScale /\ max_val = TARGET_WIDTH /\ pixel = TARGET_WIDTH

---------------------------------------------------------------------------
(* Claims about the cycle (specification Spec) *)

\* the literals of the commands, in the order of the commands
LiteralsOfCommands(cmds) ==
    [i \in 1..Len(cmds) |-> format_command(cmds[i].func, cmds[i].params)]

\* C1: the story changes only in the remember step, and there it becomes the
\* narrative parsed from this cycle's response exactly when that narrative is
\* not empty and stays as it was otherwise; the story is never empty.
C1_StoryReplacedIffNarrative ==
    /\ [](pc = "remember" => new_story = ExpectedStory(resp))
    /\ [][(pc = "remember" /\ pc' = "rest") =>
              story' = (IF new_story # <<>> THEN new_story ELSE story)]_vars
    /\ [][story' # story => (pc = "remember" /\ new_story # <<>>)]_vars
    /\ [](story # <<>>)

\* the second cycle parsed no narrative and has kept the story the first
\* cycle stored
C1_Witness ==
    /\ pc = "rest"
    /\ iteration = 2
    /\ new_story = <<>>
    /\ story = <<"h", "i">>

\* C2: the commands are those of the response in text order; they are
\* dispatched one by one in that order; the executed literals are the
\* literals of the commands, one each, in that order; the next cycle's
\* annotation gets exactly those literals (the literal "watched" when there
\* were none) and treats them entry by entry in that order.
C2_OrderPreserved ==
    /\ [](pc \in {"replay", "remember"} =>
              commands = ExpectedCommands(resp, Len(resp)))
    /\ [](pc = "replay" =>
              /\ dispatched = SubSeq(commands, 1, idx - 1)
              /\ executed = LiteralsOfCommands(dispatched))
    /\ [](pc = "remember" =>
              /\ dispatched = commands
              /\ executed = LiteralsOfCommands(commands))
    /\ [](pc = "think" /\ iteration > 1 =>
              /\ annotated = (IF commands = <<>> THEN <<WatchedLiteral>>
                              ELSE LiteralsOfCommands(commands))
              /\ Len(overlay) = Len(annotated)
              /\ \A i \in 1..Len(commands) :
                    /\ overlay[i].action_index = i
                    /\ IF commands[i].func = "type" THEN overlay[i].marks = <<>>
                       ELSE overlay[i].marks[1].at =
                                <<normalize_coord(commands[i].params[1], TARGET_WIDTH),
                                  normalize_coord(commands[i].params[2], TARGET_HEIGHT)>>)

\* the second cycle annotates the three literals of the first, whose response
\* held a type, a click and another type on three lines
C2_Witness ==
    /\ pc = "think"
    /\ iteration = 2
    /\ Len(commands) = 3
    /\ commands[2] = [func |-> "left_click", params |-> <<0, 7>>]
    /\ annotated = <<format_command("type", commands[1].params),
                     <<"l", "e", "f", "t", "_", "c", "l", "i", "c", "k", "(", "0", ",", "7", ")">>,
                     format_command("type", commands[3].params)>>
    /\ overlay[2].action_index = 2
    /\ overlay[2].marks # <<>>

\* C7: once infer has failed main() has ended: no step follows (no second
\* call of infer, no parse, no replay), nothing was dispatched in that cycle,
\* and the step in which it fails leaves story and last_actions as they were.
C7_InferFailureFatal ==
    /\ [](transport = "failed" =>
              pc = "crashed" /\ dispatched = <<>> /\ events = <<>>)
    /\ [][transport # "failed"]_vars
    /\ [][transport' = "failed" =>
              story' = story /\ last_actions' = last_actions]_vars

\* infer fails in the second cycle, after a first cycle that stored a story
\* and two literals
C7_Witness ==
    /\ pc = "crashed"
    /\ transport = "failed"
    /\ iteration = 2
    /\ story = <<"h", "i", " ", "h", "i">>
    /\ Len(last_actions) = 1
    /\ dispatched = <<>>

\* main.py:555-564: what the replay of the first n commands prints when every
\* call of the OS succeeds
RECURSIVE ReplayLog(_, _)
ReplayLog(cmds, n) ==
    IF n = 0 THEN <<Line("acting", <<Len(cmds)>>, <<>>)>>
    ELSE ReplayLog(cmds, n - 1)
         \o <<Line("command", <<n, Len(cmds)>>, format_command(cmds[n].func, cmds[n].params))>>
         \o execute_action(cmds[n].func, cmds[n].params, <<0, 0>>, Still).printed

\* C8 as stated, for the log: when a call of the OS has failed during the
\* replay, the lines printed differ from those of a replay without failure.
C8_FailureLogged ==
    (pc = "remember" /\ failed # {}) => printed # ReplayLog(commands, Len(commands))

\* a call fails in the first of two commands and the second is dispatched
\* all the same
C8_Witness ==
    /\ pc = "remember"
    /\ failed = {1}
    /\ Len(dispatched) = 2
    /\ \A j \in 1..Len(events) : events[j].ok

---------------------------------------------------------------------------
(* Claim about the annotation composer (specification SpecAnnot) *)

KindOf(literal) == LiteralKind[CHOOSE i \in 1..Len(Literals) : Literals[i] = literal]

\* the entries that parse
Counted(kind) == kind \in {"left_click", "right_click", "double_left_click", "drag", "type"}

\* how many of the first i entries parse
CountedUpTo(actions, i) == Cardinality({j \in 1..i : Counted(KindOf(actions[j]))})

Glyphs(marks) == SelectSeq(marks, LAMBDA m : m.prim = "_DIGITS")
Shapes(marks) == SelectSeq(marks, LAMBDA m : m.prim # "_DIGITS")
ColorsOf(marks) == [j \in 1..Len(marks) |-> marks[j].color]

\* the glyph of entry number k in a list of count entries
ExpectedGlyphs(marks, k, count, color) ==
    IF k > 1 \/ count > 1
    THEN /\ Len(Glyphs(marks)) = 1
         /\ Glyphs(marks)[1].arg = k
         /\ Glyphs(marks)[1].color = color
    ELSE Glyphs(marks) = <<>>

\* what entry i of the list draws, k being the number of parsing entries up
\* to it and pair the colour pair (k - 1) mod 4
ExpectedEntry(kind, entry, k, count, pair) ==
    /\ entry.action_index = k
    /\ kind \in {"sentinel", "unparseable", "type"} => entry.marks = <<>>
    /\ kind \in {"left_click", "double_left_click"} =>
          /\ ColorsOf(Shapes(entry.marks)) = <<pair[1], pair[2]>>
          /\ ExpectedGlyphs(entry.marks, k, count, pair[1])
    /\ kind = "right_click" =>
          /\ ColorsOf(Shapes(entry.marks)) = <<BLUE, YELLOW>>
          /\ ExpectedGlyphs(entry.marks, k, count, BLUE)
    /\ kind = "drag" =>
          /\ ColorsOf(Shapes(entry.marks)) = <<pair[1], pair[2], pair[1]>>
          /\ ExpectedGlyphs(entry.marks, k, count, pair[1])

\* C9 as stated: every counted entry that is drawn has the colour pair
\* (k - 1) mod 4.
C9_PairByCounter ==
    pc = "think" =>
        \A i \in 1..Len(annotated) :
            overlay[i].marks # <<>> =>
                /\ overlay[i].marks[1].color =
                       colors[((CountedUpTo(annotated, i) - 1) % 4) + 1][1]
                /\ overlay[i].marks[2].color =
                       colors[((CountedUpTo(annotated, i) - 1) % 4) + 1][2]

\* C9, amended: the counter starts at 1 and grows only at entries that parse
\* (a type entry parses and is counted, and draws nothing); the k-th counted
\* entry, when it is a left click, a double click or a drag, is drawn with
\* the pair (k - 1) mod 4; a right click is drawn blue and yellow whatever k
\* is; a click or a drag carries the glyph of k when k > 1 or the list has
\* more than one entry, and no glyph otherwise.
C9_Annotation ==
    pc = "think" =>
        \A i \in 1..Len(annotated) :
            ExpectedEntry(KindOf(annotated[i]), overlay[i],
                          CountedUpTo(annotated, i), Len(annotated),
                          colors[((CountedUpTo(annotated, i) - 1) % 4) + 1])

\* two left clicks: pair 0 with glyph 1, pair 1 with glyph 2
C9_Witness ==
    /\ pc = "think"
    /\ annotated = <<Literals[2], Literals[2]>>
    /\ ColorsOf(overlay[1].marks) = <<RED, GREEN, RED>>
    /\ overlay[1].marks[3].arg = 1
    /\ ColorsOf(overlay[2].marks) = <<BLUE, YELLOW, BLUE>>
    /\ overlay[2].marks[3].arg = 2

---------------------------------------------------------------------------
(* Claims about the raster primitives (specifications SpecRaster and        *)
(* FairLine)                                                                 *)

\* the pixels of the buffer
Canvas == {<<px, py>> : px \in 0..(CanvasWidth - 1), py \in 0..(CanvasHeight - 1)}

\* the four bytes of pixel p
PixelAt(data, p) ==
    SubSeq(data, (p[2] * CanvasWidth + p[1]) * 4 + 1, (p[2] * CanvasWidth + p[1]) * 4 + 4)

PixelsOf(points) == {points[k] : k \in 1..Len(points)}

\* the pixels of the buffer that are not blank
Changed == {p \in Canvas : PixelAt(rgba, p) # <<0, 0, 0, 0>>}

\* the square of half-width half around (x, y) has no pixel in the buffer
BoxOutside(x, y, half) ==
    \/ x + half < 0 \/ x - half >= CanvasWidth
    \/ y + half < 0 \/ y - half >= CanvasHeight

\* how far a crosshair or a circle reaches from its centre
HalfExtent(s) ==
    IF s.prim = "crosshair"
    THEN Max({s.size, CenterRadius, (s.thickness + 1) \div 2})
    ELSE s.size

\* C11: whatever the centre, the origin or the end points, a primitive and
\* the glyph renderer write pixels of the buffer only; every pixel written
\* gets the colour and every other pixel keeps its bytes; the buffer keeps
\* its length width * height * 4; a crosshair or a circle whose bounding
\* square lies outside the buffer leaves it as it was.
C11_WritesInBounds ==
    /\ [](Len(rgba) = CanvasWidth * CanvasHeight * 4)
    /\ [](PixelsOf(writes) \subseteq Canvas)
    /\ [][\A p \in Canvas :
              PixelAt(rgba', p) = (IF p \in PixelsOf(writes') THEN shape.color
                                   ELSE PixelAt(rgba, p))]_vars
    /\ []((/\ pc = "drawn"
           /\ shape.prim \in {"crosshair", "circle"}
           /\ BoxOutside(shape.x, shape.y, HalfExtent(shape)))
          => rgba = Blank(CanvasWidth, CanvasHeight))

\* a crosshair centred on the pixel that coord 1000 maps to, one past the
\* last column and the last row: it is drawn, clipped to the buffer
C11_Witness ==
    /\ pc = "drawn"
    /\ shape.prim = "crosshair"
    /\ shape.x = CanvasWidth /\ shape.y = CanvasHeight
    /\ shape.size = MaxSize
    /\ <<CanvasWidth - 1, CanvasHeight - 1>> \in PixelsOf(writes)
    /\ Len(rgba) = CanvasWidth * CanvasHeight * 4

\* C12: the loop of draw_line ends; its first turn stamps p1 and its last
\* turn stamps p2; from one turn to the next x and y each move by at most 1
\* and never away from p2.
C12_Bresenham ==
    /\ (pen.x = shape.x /\ pen.y = shape.y)
    /\ [][pc = "line" =>
              /\ <<pen.x, pen.y>> \in Canvas => <<pen.x, pen.y>> \in PixelsOf(writes')
              /\ Abs(pen'.x - pen.x) <= 1 /\ Abs(pen'.y - pen.y) <= 1
              /\ Abs(shape.x2 - pen'.x) <= Abs(shape.x2 - pen.x)
              /\ Abs(shape.y2 - pen'.y) <= Abs(shape.y2 - pen.y)
              /\ pc' = "drawn" <=> (pen.x = shape.x2 /\ pen.y = shape.y2)]_vars
    /\ [](pc = "drawn" => pen.x = shape.x2 /\ pen.y = shape.y2)
    /\ (pc = "line") ~> (pc = "drawn")

\* a steep line that runs up and to the left has been drawn to its end
C12_Witness ==
    /\ pc = "drawn"
    /\ shape.prim = "line"
    /\ shape.x2 < shape.x /\ shape.y2 < shape.y
    /\ shape.y - shape.y2 > shape.x - shape.x2 + 1
    /\ pen.x = shape.x2 /\ pen.y = shape.y2

\* the offsets d with |d| <= thickness / 2
HalfThickness(thickness) == {d \in (0 - thickness)..thickness : Abs(d) <= thickness \div 2}

\* the pixels of a crosshair whose arms are stamped by that rule
CentredCrosshair(s) ==
    {p \in Canvas :
        \/ Abs(p[1] - s.x) <= s.size /\ (p[2] - s.y) \in HalfThickness(s.thickness)
        \/ Abs(p[2] - s.y) <= s.size /\ (p[1] - s.x) \in HalfThickness(s.thickness)
        \/ (p[1] - s.x) * (p[1] - s.x) + (p[2] - s.y) * (p[2] - s.y)
               <= CenterRadius * CenterRadius}

\* the pixels of the square stamped by that rule around the end of a line
CentredStamp(s) ==
    {p \in Canvas : /\ (p[1] - s.x2) \in HalfThickness(s.thickness)
                    /\ (p[2] - s.y2) \in HalfThickness(s.thickness)}

\* C13 as stated: a crosshair is its two arms stamped at the offsets d with
\* |d| <= thickness / 2 and its disc, and the last turn of draw_line stamps
\* the square of those offsets around p2.
C13_CentredThickness ==
    pc = "drawn" =>
        /\ shape.prim = "crosshair" => PixelsOf(writes) = CentredCrosshair(shape)
        /\ shape.prim = "line" => PixelsOf(writes) = CentredStamp(shape)

\* a line of thickness 3 ends inside the buffer and its last stamp holds the
\* pixel two to the left of the end point and the pixel two above it
C13_Witness ==
    /\ pc = "drawn"
    /\ shape.prim = "line"
    /\ shape.thickness = 3
    /\ shape.x # shape.x2
    /\ <<shape.x2 - 2, shape.y2>> \in PixelsOf(writes)
    /\ <<shape.x2, shape.y2 - 2>> \in PixelsOf(writes)

\* the pixels next to (x, y) in its row and in its column
Neighbours(x, y) == {<<x - 1, y>>, <<x + 1, y>>, <<x, y - 1>>, <<x, y + 1>>}

SmallRing == pc = "drawn" /\ shape.prim = "circle" /\ ~shape.filled /\ shape.size \in {0, 1}

\* C14 as stated: a hollow circle of radius 0 or 1 changes no pixel or one.
C14_AtMostOnePixel ==
    SmallRing => Cardinality(Changed) <= 1

\* C14, amended: a hollow circle of radius 0 changes no pixel; one of radius
\* 1 changes the pixels next to the centre in its row and its column that
\* lie in the buffer, up to four, and not the centre; the buffer keeps its
\* length.
C14_SmallRing ==
    SmallRing =>
        /\ Len(rgba) = CanvasWidth * CanvasHeight * 4
        /\ PixelsOf(writes) = Changed
        /\ shape.size = 0 => Changed = {}
        /\ shape.size = 1 => Changed = Neighbours(shape.x, shape.y) \cap Canvas

\* a hollow circle of radius 1 inside the buffer: four pixels
C14_Witness ==
    /\ SmallRing
    /\ shape.size = 1
    /\ shape.x = 1 /\ shape.y = 1
    /\ Cardinality(Changed) = 4
    /\ <<1, 1>> \notin Changed

---------------------------------------------------------------------------
(* Claim about the replay of a drag (specification SpecDrag) *)

\* the calls of SetCursorPos of one loop
Moves == MOVEMENT_STEPS + 1

\* the start and the end point of the drag that was dispatched, in pixels
StartPoint ==
    <<ScreenPixel(dispatched[1].params[1], Screen.w), ScreenPixel(dispatched[1].params[2], Screen.h)>>
EndPoint ==
    <<ScreenPixel(dispatched[1].params[3], Screen.w), ScreenPixel(dispatched[1].params[4], Screen.h)>>

Between(a, v, b) == (a <= v /\ v <= b) \/ (b <= v /\ v <= a)

\* the calls from..upto are moves of the pointer that start at the point
\* origin, end at the point target, stay between the two and never step back
MovesFromTo(from, upto, origin, target) ==
    /\ \A j \in from..upto :
          /\ events[j].call = "SetCursorPos"
          /\ \A k \in 1..2 : Between(origin[k], events[j].args[k], target[k])
          /\ j > from => \A k \in 1..2 :
                 Between(events[j - 1].args[k], events[j].args[k], target[k])
    /\ events[from].args = origin
    /\ events[upto].args = target

\* C15: the calls of a replayed drag are, in this order: the position of
\* the pointer is read, then MOVEMENT_STEPS + 1 moves lead from it to the
\* start point; the left button is pressed; the position is read again and
\* MOVEMENT_STEPS + 1 moves lead from the position read (step 0) to the end
\* point (step MOVEMENT_STEPS); the left button is released. The press and
\* the release are the only calls of mouse_event, so no release precedes
\* the last move and the button is up when the action is done.
C15_DragOrder ==
    (pc = "remember" /\ dispatched # <<>>) =>
        /\ Len(events) = 2 * Moves + 4
        /\ events[1].call = "GetCursorPos"
        /\ MovesFromTo(2, Moves + 1, events[1].args, StartPoint)
        /\ events[Moves + 2].call = "mouse_event" /\ events[Moves + 2].args = <<2>>
        /\ events[Moves + 3].call = "GetCursorPos"
        /\ MovesFromTo(Moves + 4, 2 * Moves + 3, events[Moves + 3].args, EndPoint)
        /\ events[2 * Moves + 4].call = "mouse_event" /\ events[2 * Moves + 4].args = <<4>>
        /\ {j \in 1..Len(events) : events[j].call = "mouse_event"} = {Moves + 2, 2 * Moves + 4}

\* a drag from the pixel (1920, 0) to the pixel (1000, 500) whose pointer is
\* at (0, 0) when it is read after the press: step 14 of the drag is at
\* (783, 391), where the doubles of the schedule round below 784 and 392
C15_Witness ==
    /\ pc = "remember"
    /\ failed = {}
    /\ events[Moves + 1].args = <<1920, 0>>
    /\ events[Moves + 3].args = <<0, 0>>
    /\ events[Moves + 4].args = <<0, 0>>
    /\ events[Moves + 4 + 14].args = <<783, 391>>
    /\ events[2 * Moves + 3].args = <<1000, 500>>
    /\ events[2 * Moves + 4].args = <<4>>

====
